---- MODULE Spec2Model ----
(***************************************************************************)
(* Model of the Firebird dialect of SQLAlchemy                             *)
(* (lib/sqlalchemy/dialects/firebird/base.py).                             *)
(*                                                                         *)
(* Python strings that the code inspects character by character (names,    *)
(* default sources) are sequences of one-character strings; Python values  *)
(* that may be None are records [k, s] / [k, v].  SQL text that the code   *)
(* only builds is a TLA+ string built with \o, as the code builds it.      *)
(***************************************************************************)
EXTENDS Integers, Sequences, FiniteSets, TLC

VARIABLES
    nm_arg,         \* the name handed to the first name function
    nm_cur,         \* the value the last name function returned
    nm_trace,       \* the name functions applied so far, in order
    nm_consulted,   \* calls of _requires_quotes made by the last name function
    policyOnEmpty,  \* what _requires_quotes does with an empty value
    select,         \* the SELECT being compiled: _limit, _offset, _distinct
    sel_pre,        \* what get_select_precolumns returned, <<>> before the call
    sel_lim,        \* what limit_clause returned, <<>> before the call
    ischema_names,  \* the module-level type mapping table
    colspecs,       \* the module-level type-override table
    dialects,       \* the FBDialect instances and their attributes
    connections,    \* the DBAPI connections: transaction state, calls received
    stmt,           \* the INSERT / UPDATE / DELETE being compiled
    compiled,       \* what visit_insert / visit_update / visit_delete returned
    bool_rows,      \* the rows of a Boolean column: written, bound, stored, fetched
    catalog,        \* the database's system tables, as the queries see them
    reflected       \* the last get_columns call and what it returned

nameVars == <<nm_arg, nm_cur, nm_trace, nm_consulted, policyOnEmpty>>
selVars == <<select, sel_pre, sel_lim>>

moduleVars == <<ischema_names, colspecs>>
txnVars == <<connections>>
dmlVars == <<stmt, compiled>>

reflVars == <<catalog, reflected>>

vars ==
    <<nameVars, selVars, moduleVars, dialects, txnVars, dmlVars, bool_rows, reflVars>>

----------------------------------------------------------------------------
(* Bounds *)

MaxLen == 3     \* longest name
MaxOps == 2     \* longest chain of name functions
MaxLimit == 10  \* largest limit / offset of a SELECT
NumDialects == 2 \* FBDialect instances
MaxVerLen == 2  \* most components of a server version tuple
NumConns == 2   \* DBAPI connections
MaxCalls == 3   \* most commits and rollbacks on one connection
MaxReturning == 3 \* longest firebird_returning list
MaxRows == 2    \* most rows of the Boolean column
MaxCols == 2    \* most columns of the reflected table

----------------------------------------------------------------------------
(* Python str / None values *)

None == [k |-> "none", s |-> <<>>]
Str(s) == [k |-> "str", s |-> s]
Raised(e) == [k |-> "raise", s |-> <<e>>]

\* bool(name) of a str or None
Truthy(name) == name.k = "str" /\ name.s # <<>>

\* the letters the model writes names and default sources with
Upper == {"A", "D", "E", "F", "G", "I", "L", "N", "S", "T", "U"}
Lower == {"a", "d", "e", "f", "g", "i", "l", "n", "s", "t", "u"}
Digits == {"0", "1", "2"}

\* the characters the enumerated names are written with
Alphabet == {"A", "S", "a", "s", "1", "_", " ", "-"}

CasePairs ==
    { <<"a", "A">>, <<"d", "D">>, <<"e", "E">>, <<"f", "F">>, <<"g", "G">>,
      <<"i", "I">>, <<"l", "L">>, <<"n", "N">>, <<"s", "S">>, <<"t", "T">>,
      <<"u", "U">> }

upper_char(c) ==
    IF c \in Lower THEN (CHOOSE p \in CasePairs : p[1] = c)[2] ELSE c
lower_char(c) ==
    IF c \in Upper THEN (CHOOSE p \in CasePairs : p[2] = c)[1] ELSE c

\* str.upper / str.lower
upper(s) == [i \in 1..Len(s) |-> upper_char(s[i])]
lower(s) == [i \in 1..Len(s) |-> lower_char(s[i])]

\* str.rstrip(): drop the trailing whitespace
RECURSIVE rstrip(_)
rstrip(s) ==
    IF s # <<>> /\ s[Len(s)] = " " THEN rstrip(SubSeq(s, 1, Len(s) - 1)) ELSE s

\* the words of RESERVED_WORDS that can be written in Alphabet
RESERVED_WORDS == { <<"a", "s">> }

\* IdentifierPreparer._requires_quotes: "yes", "no" or "raise"
_requires_quotes(value) ==
    IF value = <<>> THEN policyOnEmpty
    ELSE IF \/ lower(value) \in RESERVED_WORDS
            \/ value[1] \in Digits
            \/ \E i \in 1..Len(value) :
                    value[i] \notin Upper \cup Lower \cup Digits \cup {"_"}
         THEN "yes" ELSE "no"

normalize_name_keeps_case(name) ==
    LET n == IF Truthy(name) THEN Str(rstrip(name.s)) ELSE name
    IN  IF n = None THEN None
        ELSE IF upper(n.s) = n.s /\ _requires_quotes(lower(n.s)) = "raise"
             THEN Raised("IndexError")
             ELSE n

normalize_name_falsy_is_none(name) ==
    LET n == IF Truthy(name) THEN Str(rstrip(name.s)) ELSE name
    IN  IF ~ Truthy(n) THEN None
        ELSE IF upper(n.s) = n.s /\ _requires_quotes(lower(n.s)) = "no"
             THEN Str(lower(n.s))
             ELSE n

normalize_name(name) ==
    LET n == IF Truthy(name) THEN Str(rstrip(name.s)) ELSE name
    IN  IF n = None THEN None
        ELSE IF upper(n.s) = n.s
             THEN CASE _requires_quotes(lower(n.s)) = "raise" -> Raised("IndexError")
                    [] _requires_quotes(lower(n.s)) = "no" -> Str(lower(n.s))
                    [] OTHER -> n
             ELSE n

denormalize_name_always_upper(name) ==
    IF name = None THEN None
    ELSE CASE _requires_quotes(lower(name.s)) = "raise" -> Raised("IndexError")
           [] _requires_quotes(lower(name.s)) = "no" -> Str(upper(name.s))
           [] OTHER -> name

denormalize_name(name) ==
    IF name = None THEN None
    ELSE IF lower(name.s) = name.s
         THEN CASE _requires_quotes(lower(name.s)) = "raise" -> Raised("IndexError")
                [] _requires_quotes(lower(name.s)) = "no" -> Str(upper(name.s))
                [] OTHER -> name
         ELSE name

\* how many times normalize_name / denormalize_name call _requires_quotes
normalize_consults(name) ==
    LET n == IF Truthy(name) THEN Str(rstrip(name.s)) ELSE name
    IN  IF n # None /\ upper(n.s) = n.s THEN 1 ELSE 0

denormalize_consults(name) ==
    IF name # None /\ lower(name.s) = name.s THEN 1 ELSE 0

----------------------------------------------------------------------------
(* Name functions applied to a name *)

RECURSIVE SeqsUpTo(_, _)
SeqsUpTo(S, n) ==
    IF n = 0 THEN { <<>> }
    ELSE LET shorter == SeqsUpTo(S, n - 1)
         IN  shorter \cup { Append(s, c) : s \in { t \in shorter : Len(t) = n - 1 }, c \in S }

Names == { Str(s) : s \in SeqsUpTo(Alphabet, MaxLen) } \cup { None }

IdleNames ==
    /\ nm_arg = None
    /\ nm_cur = None
    /\ nm_trace = <<>>
    /\ nm_consulted = 0
    /\ policyOnEmpty = "raise"

InitNames ==
    /\ nm_arg \in Names
    /\ nm_cur = nm_arg
    /\ nm_trace = <<>>
    /\ nm_consulted = 0
    /\ policyOnEmpty \in {"yes", "no", "raise"}

NormalizeName ==
    /\ Len(nm_trace) < MaxOps
    /\ nm_cur.k # "raise"
    /\ nm_cur' = normalize_name(nm_cur)
    /\ nm_consulted' = normalize_consults(nm_cur)
    /\ nm_trace' = Append(nm_trace, "normalize")
    /\ UNCHANGED <<nm_arg, policyOnEmpty>>
    /\ UNCHANGED <<selVars, moduleVars, dialects, txnVars, dmlVars, bool_rows, reflVars>>

DenormalizeName ==
    /\ Len(nm_trace) < MaxOps
    /\ nm_cur.k # "raise"
    /\ nm_cur' = denormalize_name(nm_cur)
    /\ nm_consulted' = denormalize_consults(nm_cur)
    /\ nm_trace' = Append(nm_trace, "denormalize")
    /\ UNCHANGED <<nm_arg, policyOnEmpty>>
    /\ UNCHANGED <<selVars, moduleVars, dialects, txnVars, dmlVars, bool_rows, reflVars>>

NextNames == NormalizeName \/ DenormalizeName

----------------------------------------------------------------------------
(* FBCompiler: SELECT precolumns *)

\* an attribute that may be None: <<>> is None, <<v>> is the value v
Unset == <<>>
Some(v) == <<v>>

\* bool(x) of an int or None
TruthyInt(x) == x # Unset /\ x[1] # 0

\* "%d" % n
FormatD(n) == ToString(n)

get_select_precolumns_distinct_first(sel) ==
    (IF sel._distinct THEN "DISTINCT " ELSE "")
    \o (IF TruthyInt(sel._limit) THEN "FIRST " \o FormatD(sel._limit[1]) \o " " ELSE "")
    \o (IF TruthyInt(sel._offset) THEN "SKIP " \o FormatD(sel._offset[1]) \o " " ELSE "")

get_select_precolumns(sel) ==
    LET r0 == ""
        r1 == IF TruthyInt(sel._limit)
              THEN r0 \o "FIRST " \o FormatD(sel._limit[1]) \o " " ELSE r0
        r2 == IF TruthyInt(sel._offset)
              THEN r1 \o "SKIP " \o FormatD(sel._offset[1]) \o " " ELSE r1
        r3 == IF sel._distinct THEN r2 \o "DISTINCT " ELSE r2
    IN  r3

limit_clause(sel) == ""

Limits == { Unset } \cup { Some(n) : n \in 0..MaxLimit }

Selects == [_limit : Limits, _offset : Limits, _distinct : BOOLEAN]

IdleSelect ==
    /\ select = [_limit |-> Unset, _offset |-> Unset, _distinct |-> FALSE]
    /\ sel_pre = Unset
    /\ sel_lim = Unset

InitSelect ==
    /\ select \in Selects
    /\ sel_pre = Unset
    /\ sel_lim = Unset

GetSelectPrecolumns ==
    /\ sel_pre = Unset
    /\ sel_pre' = Some(get_select_precolumns(select))
    /\ UNCHANGED <<select, sel_lim>>
    /\ UNCHANGED <<nameVars, moduleVars, dialects, txnVars, dmlVars, bool_rows, reflVars>>

LimitClause ==
    /\ sel_lim = Unset
    /\ sel_lim' = Some(limit_clause(select))
    /\ UNCHANGED <<select, sel_pre>>
    /\ UNCHANGED <<nameVars, moduleVars, dialects, txnVars, dmlVars, bool_rows, reflVars>>

NextSelect == GetSelectPrecolumns \/ LimitClause

----------------------------------------------------------------------------
(* Module-level tables and FBDialect.initialize *)

\* ischema_names as the module defines it
ischema_names_at_load ==
    [n \in {"SHORT", "LONG", "QUAD", "FLOAT", "DATE", "TIME", "TEXT", "INT64",
            "DOUBLE", "TIMESTAMP", "VARYING", "CSTRING", "BLOB"} |->
        CASE n = "SHORT" -> "SMALLINT"
          [] n = "LONG" -> "BIGINT"
          [] n = "QUAD" -> "FLOAT"
          [] n = "FLOAT" -> "FLOAT"
          [] n = "DATE" -> "DATE"
          [] n = "TIME" -> "TIME"
          [] n = "TEXT" -> "TEXT"
          [] n = "INT64" -> "NUMERIC"
          [] n = "DOUBLE" -> "FLOAT"
          [] n = "TIMESTAMP" -> "TIMESTAMP"
          [] n = "VARYING" -> "VARCHAR"
          [] n = "CSTRING" -> "CHAR"
          [] n = "BLOB" -> "BLOB"]

\* colspecs as the module defines it
colspecs_at_load == [t \in {"Boolean"} |-> "_FBBoolean"]

\* the colspecs an instance gets from a pre-2.0 server
legacy_colspecs == [t \in {"DateTime"} |-> "DATE"]

\* Python's a > b on tuples of ints
RECURSIVE TupleGT(_, _)
TupleGT(a, b) ==
    IF a = <<>> THEN FALSE
    ELSE IF b = <<>> THEN TRUE
    ELSE IF a[1] # b[1] THEN a[1] > b[1]
    ELSE TupleGT(Tail(a), Tail(b))

Dialects == 1..NumDialects

\* a new FBDialect: no instance attribute set, the class attributes show through
NewDialect ==
    [server_version_info |-> Unset,
     _version_two |-> TRUE,
     ischema_names |-> Unset,
     colspecs |-> Unset]

\* self.ischema_names / self.colspecs: the instance attribute when set, else the
\* class attribute, which is the module-level table itself
self_ischema_names(self) ==
    IF self.ischema_names # Unset THEN self.ischema_names[1] ELSE ischema_names

self_colspecs(self) ==
    IF self.colspecs # Unset THEN self.colspecs[1] ELSE colspecs

\* initialize(self, connection) against a server reporting `version`:
\* the instance and the module-level ischema_names afterwards
initialize_without_copy(self, version) ==
    LET s1 == [self EXCEPT !.server_version_info = Some(version)]
        s2 == [s1 EXCEPT !._version_two = TupleGT(version, <<2>>)]
    IN  IF ~ s2._version_two
        THEN [self |-> [s2 EXCEPT !.colspecs = Some(legacy_colspecs)],
              ischema_names |-> [ischema_names EXCEPT !["TIMESTAMP"] = "DATE"]]
        ELSE [self |-> s2, ischema_names |-> ischema_names]

initialize(self, version) ==
    LET s1 == [self EXCEPT !.server_version_info = Some(version)]
        s2 == [s1 EXCEPT !._version_two = TupleGT(version, <<2>>)]
    IN  IF ~ s2._version_two
        THEN [self |-> [s2 EXCEPT
                          !.ischema_names =
                              Some([ischema_names EXCEPT !["TIMESTAMP"] = "DATE"]),
                          !.colspecs = Some(legacy_colspecs)],
              ischema_names |-> ischema_names]
        ELSE [self |-> s2, ischema_names |-> ischema_names]

Majors == {1, 2, 3}
Minors == {0}

\* server version tuples: a major component, then up to MaxVerLen - 1 more
Versions == { <<m>> \o rest : m \in Majors, rest \in SeqsUpTo(Minors, MaxVerLen - 1) }

IdleDialects ==
    /\ ischema_names = ischema_names_at_load
    /\ colspecs = colspecs_at_load
    /\ dialects = [d \in Dialects |-> NewDialect]

InitDialects == IdleDialects

Initialize ==
    \E d \in Dialects, version \in Versions :
        LET r == initialize(dialects[d], version)
        IN  /\ dialects' = [dialects EXCEPT ![d] = r.self]
            /\ ischema_names' = r.ischema_names
            /\ UNCHANGED colspecs
            /\ UNCHANGED <<nameVars, selVars, txnVars, dmlVars, bool_rows, reflVars>>

----------------------------------------------------------------------------
(* do_commit / do_rollback *)

\* the driver's connection.commit(retain) / connection.rollback(retain): a
\* retaining call leaves a transaction context open, a plain one does not
driver_end_transaction(conn, op, retain) ==
    [in_transaction |-> retain,
     calls |-> Append(conn.calls, [op |-> op, retain |-> retain])]

do_rollback_plain(conn) == driver_end_transaction(conn, "rollback", FALSE)

do_rollback(conn) == driver_end_transaction(conn, "rollback", TRUE)

do_commit(conn) == driver_end_transaction(conn, "commit", TRUE)

Conns == 1..NumConns

IdleTxn == connections = [c \in Conns |-> [in_transaction |-> TRUE, calls |-> <<>>]]

InitTxn ==
    connections \in [Conns -> [in_transaction : BOOLEAN, calls : { <<>> }]]

DoCommit ==
    \E c \in Conns :
        /\ Len(connections[c].calls) < MaxCalls
        /\ connections' = [connections EXCEPT ![c] = do_commit(@)]
        /\ UNCHANGED <<nameVars, selVars, moduleVars, dialects, dmlVars, bool_rows, reflVars>>

DoRollback ==
    \E c \in Conns :
        /\ Len(connections[c].calls) < MaxCalls
        /\ connections' = [connections EXCEPT ![c] = do_rollback(@)]
        /\ UNCHANGED <<nameVars, selVars, moduleVars, dialects, dmlVars, bool_rows, reflVars>>

NextTxn == DoCommit \/ DoRollback

----------------------------------------------------------------------------
(* FBCompiler: RETURNING on INSERT / UPDATE / DELETE *)

Column(table, name) == [selectable |-> FALSE, table |-> table, name |-> name]

\* a Selectable and its columns, in column order
Table(name, cols) ==
    [selectable |-> TRUE, name |-> name,
     columns |-> [i \in 1..Len(cols) |-> Column(name, cols[i])]]

\* self.process(c, within_columns_clause=True): the text of one expression
process(c) == IF c.selectable THEN c.name ELSE c.table \o "." \o c.name

\* sep.join(texts)
RECURSIVE Join(_, _)
Join(texts, sep) ==
    IF texts = <<>> THEN ""
    ELSE IF Len(texts) = 1 THEN texts[1]
    ELSE texts[1] \o sep \o Join(Tail(texts), sep)

\* the generator flatten_columnlist(collist), as the list it yields
RECURSIVE flatten_columnlist(_)
flatten_columnlist(collist) ==
    IF collist = <<>> THEN <<>>
    ELSE LET c == Head(collist)
         IN  (IF c.selectable THEN c.columns ELSE <<c>>)
             \o flatten_columnlist(Tail(collist))

_append_returning_unflattened(text, st) ==
    LET returning_cols == st.kwargs["firebird_returning"]
        columns == [i \in 1..Len(returning_cols) |-> process(returning_cols[i])]
    IN  text \o " RETURNING " \o Join(columns, ", ")

_append_returning(text, st) ==
    LET returning_cols == st.kwargs["firebird_returning"]
        flat == flatten_columnlist(returning_cols)
        columns == [i \in 1..Len(flat) |-> process(flat[i])]
    IN  text \o " RETURNING " \o Join(columns, ", ")

\* super(FBCompiler, self).visit_update(stmt) and its siblings: the base text
super_visit(st) == st.base

visit_update(update_stmt) ==
    LET text == super_visit(update_stmt)
    IN  IF "firebird_returning" \in DOMAIN update_stmt.kwargs
        THEN _append_returning(text, update_stmt) ELSE text

visit_insert(insert_stmt) ==
    LET text == super_visit(insert_stmt)
    IN  IF "firebird_returning" \in DOMAIN insert_stmt.kwargs
        THEN _append_returning(text, insert_stmt) ELSE text

visit_delete(delete_stmt) ==
    LET text == super_visit(delete_stmt)
    IN  IF "firebird_returning" \in DOMAIN delete_stmt.kwargs
        THEN _append_returning(text, delete_stmt) ELSE text

ReturnItems ==
    { Column("empl", "id"), Column("empl", "salary"), Column("dept", "name"),
      Table("empl", <<"id", "salary">>) }

NoKwargs == [k \in {} |-> <<>>]

Kwargs ==
    { NoKwargs }
    \cup { [k \in {"firebird_returning"} |-> l] : l \in SeqsUpTo(ReturnItems, MaxReturning) }

BaseText(kind) ==
    CASE kind = "insert" -> "INSERT INTO empl (salary) VALUES (?)"
      [] kind = "update" -> "UPDATE empl SET salary=?"
      [] kind = "delete" -> "DELETE FROM empl"

Statements ==
    { [kind |-> k, base |-> BaseText(k), kwargs |-> kw] :
        k \in {"insert", "update", "delete"}, kw \in Kwargs }

IdleDml ==
    /\ stmt = [kind |-> "delete", base |-> BaseText("delete"), kwargs |-> NoKwargs]
    /\ compiled = Unset

InitDml ==
    /\ stmt \in Statements
    /\ compiled = Unset

VisitUpdate ==
    /\ stmt.kind = "update"
    /\ compiled = Unset
    /\ compiled' = Some(visit_update(stmt))
    /\ UNCHANGED <<stmt, nameVars, selVars, moduleVars, dialects, txnVars, bool_rows, reflVars>>

VisitInsert ==
    /\ stmt.kind = "insert"
    /\ compiled = Unset
    /\ compiled' = Some(visit_insert(stmt))
    /\ UNCHANGED <<stmt, nameVars, selVars, moduleVars, dialects, txnVars, bool_rows, reflVars>>

VisitDelete ==
    /\ stmt.kind = "delete"
    /\ compiled = Unset
    /\ compiled' = Some(visit_delete(stmt))
    /\ UNCHANGED <<stmt, nameVars, selVars, moduleVars, dialects, txnVars, bool_rows, reflVars>>

NextDml == VisitUpdate \/ VisitInsert \/ VisitDelete

----------------------------------------------------------------------------
(* _FBBoolean *)

\* Python values: None, bool and int are distinct types
PyNone == [t |-> "NoneType", v |-> 0]
PyTrue == [t |-> "bool", v |-> 1]
PyFalse == [t |-> "bool", v |-> 0]
PyInt(n) == [t |-> "int", v |-> n]

\* bool(value)
PyTruthy(value) == value.v # 0

\* value and True or False
AndTrueOrFalse(value) == IF PyTruthy(value) THEN PyTrue ELSE PyFalse

result_processor_none_as_false(value) == AndTrueOrFalse(value)

result_processor(value) ==
    IF value = PyNone THEN PyNone ELSE AndTrueOrFalse(value)

bind_processor(value) ==
    IF value = PyTrue THEN PyInt(1)
    ELSE IF value = PyFalse THEN PyInt(0)
    ELSE IF value = PyNone THEN PyNone
    ELSE AndTrueOrFalse(value)

\* FBTypeCompiler.visit_boolean: the column is a SMALLINT, which holds and
\* gives back an integer or NULL
store_as_smallint(bound) == IF bound = PyNone THEN PyNone ELSE PyInt(bound.v)

\* what a client writes to the column
Writable == { PyNone, PyTrue, PyFalse, PyInt(0), PyInt(1), PyInt(2) }

\* what the column may hold from other writers
Storable == { PyNone, PyInt(0), PyInt(1), PyInt(2), PyInt(-1) }

IdleBool == bool_rows = <<>>

InitBool ==
    bool_rows \in
        { <<>> } \cup
        { << [written |-> Unset, bound |-> Unset, stored |-> s, fetched |-> Unset] >> :
            s \in Storable }

WriteBool ==
    \E value \in Writable :
        /\ Len(bool_rows) < MaxRows
        /\ bool_rows' = Append(bool_rows,
                [written |-> Some(value),
                 bound |-> Some(bind_processor(value)),
                 stored |-> store_as_smallint(bind_processor(value)),
                 fetched |-> Unset])
        /\ UNCHANGED <<nameVars, selVars, moduleVars, dialects, txnVars, dmlVars, reflVars>>

ReadBool ==
    \E i \in 1..Len(bool_rows) :
        /\ bool_rows[i].fetched = Unset
        /\ bool_rows' = [bool_rows EXCEPT
                            ![i].fetched = Some(result_processor(bool_rows[i].stored))]
        /\ UNCHANGED <<nameVars, selVars, moduleVars, dialects, txnVars, dmlVars, reflVars>>

NextBool == WriteBool \/ ReadBool

----------------------------------------------------------------------------
(* Reflection: get_primary_keys, get_column_sequence, get_columns *)

DEP_TABLE == 0          \* rdb$depended_on_type of a table
DEP_GENERATOR == 14     \* rdb$depended_on_type of a generator
DEP_BY_TRIGGER == 2     \* rdb$dependent_type of a trigger
TRIG_BEFORE_INSERT == 1 \* rdb$trigger_type of a BEFORE INSERT trigger
DEPS_OF_LINK == 2       \* dependencies of a trigger that only feeds a key
PREFIX_LEN == 8         \* len('DEFAULT ')

\* the text of a string kept as a sequence of pieces
Text(s) == Join(s, "")

\* s.startswith(prefix)
startswith(s, prefix) ==
    Len(s) >= Len(prefix) /\ SubSeq(s, 1, Len(prefix)) = prefix

\* a type object the reflection hands out: the class and how it was built
TypeDesc(cls, call, length, precision, scale) ==
    [cls |-> cls, call |-> call, length |-> length,
     precision |-> precision, scale |-> scale]

NULLTYPE == TypeDesc("NullType", "instance", Unset, Unset, Unset)

\* SQL comparison of CHAR values: trailing padding does not count
CharEq(a, b) == rstrip(a) = rstrip(b)

\* keyqry: the fields of the PRIMARY KEY constraint of tablename
keyqry(tablename) ==
    IF CharEq(catalog.relation_name, tablename) THEN catalog.pk ELSE <<>>

get_primary_keys(table_name) ==
    LET tablename == denormalize_name(table_name)
        rows == keyqry(tablename.s)
    IN  [i \in 1..Len(rows) |-> normalize_name(Str(rows[i]))]

\* genqry: one row per trigger that depends on the column of the table and on
\* a generator and on nothing else
genqry(tablename, colname) ==
    { [trigger |-> p[1].dependent_name, fgenerator |-> p[2].depended_on_name] :
        p \in { q \in catalog.deps \X catalog.deps :
                  /\ q[1].dependent_name = q[2].dependent_name
                  /\ q[2].depended_on_type = DEP_GENERATOR
                  /\ q[2].dependent_type = DEP_BY_TRIGGER
                  /\ \E trig \in catalog.triggers :
                        /\ trig.trigger_name = q[1].dependent_name
                        /\ trig.trigger_type = TRIG_BEFORE_INSERT
                  /\ CharEq(q[1].depended_on_name, tablename)
                  /\ q[1].depended_on_type = DEP_TABLE
                  /\ q[1].field_name # Unset
                  /\ CharEq(q[1].field_name[1], colname)
                  /\ Cardinality({ d \in catalog.deps :
                                     d.dependent_name = q[2].dependent_name })
                        = DEPS_OF_LINK } }

\* genc.fetchone(): the first row in the order the server returns them, which
\* the query does not fix; `order` lists the triggers in that order
fetchone(rows, order) ==
    IF rows = {} THEN Unset
    ELSE LET first == CHOOSE i \in 1..Len(order) :
                        /\ \E r \in rows : r.trigger = order[i]
                        /\ \A j \in 1..(i - 1) : \A r \in rows : r.trigger # order[j]
         IN  Some(CHOOSE r \in rows : r.trigger = order[first])

\* the dict get_column_sequence returns, Unset for None
get_column_sequence(table_name, column_name, order) ==
    LET tablename == denormalize_name(table_name)
        colname == denormalize_name(column_name)
        genr == fetchone(genqry(tablename.s, colname.s), order)
    IN  IF genr # Unset
        THEN Some([name |-> normalize_name(Str(genr[1].fgenerator))])
        ELSE Unset

\* tblqry: the fields of tablename by rdb$field_position
tblqry(tablename) ==
    IF CharEq(catalog.relation_name, tablename) THEN catalog.fields ELSE <<>>

\* the type of one row: the type object and the warnings issued for it
column_type_unrecognized_as_string(self, row, name) ==
    LET colspec == Text(rstrip(row.ftype))
        names == self_ischema_names(self)
    IN  IF colspec \notin DOMAIN names
        THEN [coltype |-> TypeDesc("VARCHAR", "length", row.flen, Unset, Unset),
              warned |-> <<>>]
        ELSE [coltype |-> TypeDesc(names[colspec], "row", Unset, Unset, Unset),
              warned |-> <<>>]

column_type(self, row, name) ==
    LET colspec == Text(rstrip(row.ftype))
        names == self_ischema_names(self)
    IN  IF colspec \notin DOMAIN names
        THEN [coltype |-> NULLTYPE,
              warned |-> << [colspec |-> colspec, name |-> name] >>]
        ELSE LET coltype == names[colspec]
             IN  [warned |-> <<>>,
                  coltype |->
                    IF colspec = "INT64"
                    THEN TypeDesc(coltype, "precision, scale", Unset,
                                  row.fprec, Some(row.fscale[1] * (-1)))
                    ELSE IF colspec \in {"VARYING", "CSTRING"}
                    THEN TypeDesc(coltype, "length", row.flen, Unset, Unset)
                    ELSE IF colspec = "TEXT"
                    THEN TypeDesc("TEXT", "length", row.flen, Unset, Unset)
                    ELSE IF colspec = "BLOB"
                    THEN IF row.stype = Some(1)
                         THEN TypeDesc("TEXT", "no arguments", Unset, Unset, Unset)
                         ELSE TypeDesc("BLOB", "no arguments", Unset, Unset, Unset)
                    ELSE TypeDesc(coltype, "row", Unset, Unset, Unset)]

\* the default of one row: [ok, defvalue], ok false when the assert fails
column_default_case_sensitive(row) ==
    IF row.fdefault # Unset
    THEN IF startswith(row.fdefault[1], <<"D", "E", "F", "A", "U", "L", "T", " ">>)
         THEN [ok |-> TRUE,
               defvalue |-> Some(SubSeq(row.fdefault[1], PREFIX_LEN + 1,
                                        Len(row.fdefault[1])))]
         ELSE [ok |-> FALSE, defvalue |-> Unset]
    ELSE [ok |-> TRUE, defvalue |-> Unset]

column_default(row) ==
    IF row.fdefault # Unset
    THEN IF startswith(upper(row.fdefault[1]),
                       <<"D", "E", "F", "A", "U", "L", "T", " ">>)
         THEN [ok |-> TRUE,
               defvalue |-> Some(SubSeq(row.fdefault[1], PREFIX_LEN + 1,
                                        Len(row.fdefault[1])))]
         ELSE [ok |-> FALSE, defvalue |-> Unset]
    ELSE [ok |-> TRUE, defvalue |-> Unset]

\* the while loop of get_columns from row i on
RECURSIVE get_columns_loop(_, _, _, _, _, _, _, _)
get_columns_loop(self, rows, pkey_cols, tablename, order, i, cols, warnings) ==
    IF i > Len(rows)
    THEN [k |-> "return", cols |-> cols, warnings |-> warnings]
    ELSE LET row == rows[i]
             name == normalize_name(Str(row.fname))
             typ == column_type(self, row, name)
             def == column_default(row)
             col_d == [name |-> name,
                       type |-> typ.coltype,
                       nullable |-> ~ TruthyInt(row.null_flag),
                       default |-> def.defvalue]
             seq_d == IF Len(pkey_cols) = 1 /\ name = pkey_cols[1]
                      THEN get_column_sequence(tablename, name, order)
                      ELSE Unset
             col == IF seq_d # Unset
                    THEN col_d @@ [sequence |-> seq_d[1]]
                    ELSE col_d
         IN  IF ~ def.ok
             THEN [k |-> "raise", exc |-> "AssertionError",
                   warnings |-> warnings \o typ.warned]
             ELSE get_columns_loop(self, rows, pkey_cols, tablename, order, i + 1,
                                   Append(cols, col), warnings \o typ.warned)

get_columns(self, table_name, order) ==
    LET pkey_cols == get_primary_keys(table_name)
        tablename == denormalize_name(table_name)
    IN  get_columns_loop(self, tblqry(tablename.s), pkey_cols, tablename, order,
                         1, <<>>, <<>>)

\* ---- the catalogs the reflection is run on

TableName == <<"T">>
Triggers == {"TRG_A", "TRG_B"}
TriggerOrders == { <<"TRG_A", "TRG_B">>, <<"TRG_B", "TRG_A">> }

\* the name of the i-th field as the server returns it, padded
FieldName(i) ==
    IF i = 1 THEN <<"I", "D", " ", " ">>
    ELSE <<"N">> \o [j \in 1..(i - 1) |-> "A"] \o <<" ">>

Field(i, ftype, fdefault) ==
    [fname |-> FieldName(i),
     null_flag |-> IF i = 1 THEN Some(1) ELSE Unset,
     ftype |-> <<ftype, " ", " ">>,
     stype |-> IF ftype = "BLOB" THEN Some(1) ELSE Some(0),
     flen |-> Some(30),
     fprec |-> Some(10),
     fscale |-> Some(-2),
     fdefault |-> fdefault]

DefaultSources ==
    { Some(<<"D", "E", "F", "A", "U", "L", "T", " ", "0">>),
      Some(<<"d", "e", "f", "a", "u", "l", "t", " ", "1">>),
      Some(<<"D", "e", "f", "a", "u", "l", "t", " ">>),
      Some(<<"D", "E", "F", "A", "U", "L", "T", "0">>),
      Some(<<" ", "D", "E", "F", "A", "U", "L", "T", " ", "0">>),
      Some(<<"0">>) }

\* what one field may look like: its type name and its default source
FieldKinds ==
    { <<ty, Unset>> :
        ty \in {"LONG", "INT64", "VARYING", "TEXT", "BLOB", "TIMESTAMP", "BOGUS"} }
    \cup { <<"LONG", d>> : d \in DefaultSources }
    \cup { <<"BOGUS", d>> : d \in { Some(<<"d", "e", "f", "a", "u", "l", "t", " ", "1">>),
                                    Some(<<"0">>) } }

FieldLists(n) ==
    { [i \in 1..n |-> Field(i, kinds[i][1], kinds[i][2])] : kinds \in [1..n -> FieldKinds] }

PlainFields(n) == [i \in 1..n |-> Field(i, "LONG", Unset)]

\* the primary keys a table of n fields may have
PrimaryKeys(n) ==
    { <<>>, <<FieldName(1)>> }
    \cup (IF n >= 2
          THEN { <<FieldName(2)>>, <<FieldName(1), FieldName(2)>> }
          ELSE {})

TableDep(trigger, field) ==
    [dependent_name |-> trigger, depended_on_name |-> TableName,
     depended_on_type |-> DEP_TABLE, dependent_type |-> DEP_BY_TRIGGER,
     field_name |-> Some(field)]

GeneratorDep(trigger, generator) ==
    [dependent_name |-> trigger, depended_on_name |-> generator,
     depended_on_type |-> DEP_GENERATOR, dependent_type |-> DEP_BY_TRIGGER,
     field_name |-> Unset]

\* the dependencies a trigger may have
DepsOf(trigger) ==
    { TableDep(trigger, <<"I", "D">>), TableDep(trigger, <<"N", "A">>),
      GeneratorDep(trigger, <<"G", "1", " ">>), GeneratorDep(trigger, <<"G", "2", " ">>) }

AllDeps == UNION { DepsOf(trigger) : trigger \in Triggers }

TriggerTables ==
    { { [trigger_name |-> trigger, trigger_type |-> ty[trigger]] : trigger \in Triggers } :
        ty \in [Triggers -> {1, 3}] }

\* a key fed by one trigger from one generator
LinkedDeps == { TableDep("TRG_A", <<"I", "D">>), GeneratorDep("TRG_A", <<"G", "1", " ">>) }

LinkedTriggers == { [trigger_name |-> "TRG_A", trigger_type |-> 1] }

\* catalogs that vary the fields
FieldCatalogs ==
    { [relation_name |-> TableName, fields |-> f, pk |-> pk, deps |-> LinkedDeps,
       triggers |-> LinkedTriggers] :
        f \in UNION { FieldLists(n) : n \in 1..MaxCols },
        pk \in { <<>>, <<FieldName(1)>> } }

\* catalogs that vary the key, the triggers and their dependencies
TriggerCatalogs ==
    UNION { { [relation_name |-> TableName, fields |-> PlainFields(n), pk |-> pk,
               deps |-> deps, triggers |-> trigs] :
                pk \in PrimaryKeys(n), deps \in SUBSET AllDeps, trigs \in TriggerTables } :
            n \in 1..MaxCols }

\* the catalog of the dialect specification: a key and a timestamp
PlainCatalog ==
    [relation_name |-> TableName,
     fields |-> << Field(1, "LONG", Unset), Field(2, "TIMESTAMP", Unset) >>,
     pk |-> <<FieldName(1)>>, deps |-> LinkedDeps, triggers |-> LinkedTriggers]

\* the table names get_columns is asked for
TableArgs == { Str(<<"t">>), Str(<<"s">>) }

IdleReflect ==
    /\ catalog = PlainCatalog
    /\ reflected = Unset

InitReflect ==
    /\ catalog \in FieldCatalogs \cup TriggerCatalogs
    /\ reflected = Unset

GetColumns ==
    \E d \in Dialects, table_name \in TableArgs, order \in TriggerOrders :
        /\ reflected' = Some([dialect |-> d, table_name |-> table_name,
                              result |-> get_columns(dialects[d], table_name, order)])
        /\ UNCHANGED catalog
        /\ UNCHANGED <<nameVars, selVars, moduleVars, dialects, txnVars, dmlVars, bool_rows>>

NextReflect == GetColumns

----------------------------------------------------------------------------
(* Specifications *)

NextDialects == Initialize \/ GetColumns

StartNames ==
    /\ InitNames
    /\ IdleSelect
    /\ IdleDialects
    /\ IdleTxn
    /\ IdleDml
    /\ IdleBool
    /\ IdleReflect

SpecNames == StartNames /\ [][NextNames]_vars

StartSelect ==
    /\ InitSelect
    /\ IdleNames
    /\ IdleDialects
    /\ IdleTxn
    /\ IdleDml
    /\ IdleBool
    /\ IdleReflect

SpecSelect == StartSelect /\ [][NextSelect]_vars

StartTxn ==
    /\ InitTxn
    /\ IdleNames
    /\ IdleSelect
    /\ IdleDialects
    /\ IdleDml
    /\ IdleBool
    /\ IdleReflect

SpecTxn == StartTxn /\ [][NextTxn]_vars

StartDml ==
    /\ InitDml
    /\ IdleNames
    /\ IdleSelect
    /\ IdleDialects
    /\ IdleTxn
    /\ IdleBool
    /\ IdleReflect

SpecDml == StartDml /\ [][NextDml]_vars

StartBool ==
    /\ InitBool
    /\ IdleNames
    /\ IdleSelect
    /\ IdleDialects
    /\ IdleTxn
    /\ IdleDml
    /\ IdleReflect

SpecBool == StartBool /\ [][NextBool]_vars

StartReflect ==
    /\ InitReflect
    /\ IdleNames
    /\ IdleSelect
    /\ IdleDialects
    /\ IdleTxn
    /\ IdleDml
    /\ IdleBool

SpecReflect == StartReflect /\ [][NextReflect]_vars

StartDialects ==
    /\ InitDialects
    /\ IdleNames
    /\ IdleSelect
    /\ IdleTxn
    /\ IdleDml
    /\ IdleBool
    /\ IdleReflect

Spec == StartDialects /\ [][NextDialects]_vars

----------------------------------------------------------------------------
(* Properties *)

\* n needs no quoting: legal characters only, no leading digit
PlainSyntax(s) ==
    /\ s # <<>>
    /\ \A i \in 1..Len(s) : s[i] \in Upper \cup Lower \cup Digits \cup {"_"}
    /\ s[1] \notin Digits

UpperPlain(n) ==
    /\ n.k = "str"
    /\ PlainSyntax(n.s)
    /\ \A i \in 1..Len(n.s) : n.s[i] \notin Lower
    /\ lower(n.s) \notin RESERVED_WORDS

\* C1: for every all-uppercase identifier n that needs no quoting and whose
\* lower-case form is not reserved, normalize_name(n) is n lower-cased and
\* denormalize_name(normalize_name(n)) is n.
C1_NormalizeRoundTrip ==
    UpperPlain(nm_arg) =>
        /\ nm_trace = <<"normalize">> => nm_cur = Str(lower(nm_arg.s))
        /\ nm_trace = <<"normalize", "denormalize">> => nm_cur = nm_arg

C1_Witness ==
    /\ UpperPlain(nm_arg)
    /\ \E i \in 1..Len(nm_arg.s) : nm_arg.s[i] \in Upper
    /\ nm_trace = <<"normalize", "denormalize">>
    /\ nm_cur = nm_arg

\* C2 (as claimed): normalize_name and denormalize_name applied to the empty
\* string or to None return None without consulting the quoting policy.
C2_EmptyAndNoneGiveNone ==
    (Len(nm_trace) = 1 /\ nm_arg \in {None, Str(<<>>)}) =>
        (nm_cur = None /\ nm_consulted = 0)

\* C2 (amended): applied to None both functions return None without
\* consulting the quoting policy; applied to the empty string both consult
\* the policy and do not return None: a returned value is the empty string.
C2_NoneGivesNone ==
    Len(nm_trace) = 1 =>
        /\ nm_arg = None => (nm_cur = None /\ nm_consulted = 0)
        /\ nm_arg = Str(<<>>) =>
              /\ nm_consulted = 1
              /\ nm_cur # None
              /\ nm_cur.k = "str" => nm_cur = Str(<<>>)

C2_Witness ==
    /\ nm_arg = None
    /\ nm_trace = <<"denormalize">>
    /\ nm_cur = None
    /\ nm_consulted = 0

LimitFiveOffsetTen == [_limit |-> Some(5), _offset |-> Some(10), _distinct |-> TRUE]

\* C3 (as claimed): for limit=5, offset=10, distinct the precolumn fragment is
\* "DISTINCT FIRST 5 SKIP 10 ", and limit_clause returns "" for every SELECT.
C3_DistinctFirst ==
    /\ (select = LimitFiveOffsetTen /\ sel_pre # Unset)
            => sel_pre[1] = "DISTINCT FIRST 5 SKIP 10 "
    /\ sel_lim # Unset => sel_lim[1] = ""

\* C3 (amended): for limit=5, offset=10, distinct the precolumn fragment is
\* "FIRST 5 SKIP 10 DISTINCT ", and limit_clause returns "" for every SELECT.
C3_DistinctLast ==
    /\ (select = LimitFiveOffsetTen /\ sel_pre # Unset)
            => sel_pre[1] = "FIRST 5 SKIP 10 DISTINCT "
    /\ sel_lim # Unset => sel_lim[1] = ""

C3_Witness ==
    /\ select = LimitFiveOffsetTen
    /\ sel_pre = Some("FIRST 5 SKIP 10 DISTINCT ")
    /\ sel_lim = Some("")

\* C4 (as claimed): a SELECT that carries a limit n >= 0 gets "FIRST n ", one
\* that carries an offset m >= 0 gets "SKIP m ", in that order, followed by
\* "DISTINCT " when distinct; without limit and offset, neither.
C4_EveryLimitEmitted ==
    sel_pre # Unset =>
        sel_pre[1] =
            (IF select._limit # Unset
             THEN "FIRST " \o ToString(select._limit[1]) \o " " ELSE "")
            \o (IF select._offset # Unset
                THEN "SKIP " \o ToString(select._offset[1]) \o " " ELSE "")
            \o (IF select._distinct THEN "DISTINCT " ELSE "")

\* C5 (as claimed): initialize leaves the dialect in legacy mode exactly when
\* the server version's major component is below 2; for major 1 TIMESTAMP maps
\* to the date-only type; for major >= 2, of any tuple length, the type
\* mapping the instance uses is the one it used before the call.
C5_LegacyIffMajorBelowTwo ==
    [][\A d \in Dialects :
          dialects'[d].server_version_info # Unset =>
              LET major == dialects'[d].server_version_info[1][1]
              IN  /\ dialects'[d]._version_two = (major >= 2)
                  /\ major = 1 =>
                        self_ischema_names(dialects[d])'["TIMESTAMP"] = "DATE"
                  /\ major >= 2 =>
                        self_ischema_names(dialects[d])' = self_ischema_names(dialects[d])
      ]_vars

\* C6: every do_commit and do_rollback reaches the driver with retain = true,
\* so a connection that received any of them has a transaction open.
C6_AlwaysRetaining ==
    \A c \in Conns :
        /\ \A i \in 1..Len(connections[c].calls) : connections[c].calls[i].retain
        /\ connections[c].calls # <<>> => connections[c].in_transaction

C6_Witness ==
    \E c \in Conns :
        /\ Len(connections[c].calls) = MaxCalls
        /\ \E i, j \in 1..MaxCalls :
              /\ connections[c].calls[i].op = "commit"
              /\ connections[c].calls[j].op = "rollback"
        /\ connections[c].in_transaction

\* the columns a returning list stands for: a table stands for its columns
ReturnedColumns(l) ==
    IF l = <<>> THEN <<>>
    ELSE LET n == Len(l)
             expand(i) == IF l[i].selectable THEN l[i].columns ELSE << l[i] >>
             RECURSIVE upto(_)
             upto(i) == IF i = 0 THEN <<>> ELSE upto(i - 1) \o expand(i)
         IN  upto(n)

\* C8: with a returning list the compiled text is the base text, " RETURNING "
\* and the processed expressions joined by ", " in list order, every table
\* replaced in place by its columns; without one it is the base text.
C8_ReturningAppended ==
    compiled # Unset =>
        IF "firebird_returning" \in DOMAIN stmt.kwargs
        THEN LET cols == ReturnedColumns(stmt.kwargs["firebird_returning"])
             IN  compiled[1] =
                    stmt.base \o " RETURNING "
                    \o Join([i \in 1..Len(cols) |-> cols[i].table \o "." \o cols[i].name], ", ")
        ELSE compiled[1] = stmt.base

C8_Witness ==
    /\ stmt.kind = "update"
    /\ "firebird_returning" \in DOMAIN stmt.kwargs
    /\ stmt.kwargs["firebird_returning"] =
            << Column("dept", "name"), Table("empl", <<"id", "salary">>) >>
    /\ compiled = Some("UPDATE empl SET salary=? RETURNING dept.name, empl.id, empl.salary")

\* C9: bind maps True, False, None to exactly 1, 0, None; result maps None to
\* None, a truthy stored value to True, a falsy one to False; so what is
\* read back for a written True, False or None is what was written.
C9_BooleanThreeValued ==
    \A i \in 1..Len(bool_rows) :
        LET r == bool_rows[i]
        IN  /\ r.written = Some(PyTrue) => r.bound = Some(PyInt(1))
            /\ r.written = Some(PyFalse) => r.bound = Some(PyInt(0))
            /\ r.written = Some(PyNone) => r.bound = Some(PyNone)
            /\ r.fetched # Unset =>
                  /\ r.stored = PyNone => r.fetched[1] = PyNone
                  /\ (r.stored # PyNone /\ r.stored.v # 0) => r.fetched[1] = PyTrue
                  /\ (r.stored # PyNone /\ r.stored.v = 0) => r.fetched[1] = PyFalse
                  /\ r.written \in {Some(PyTrue), Some(PyFalse), Some(PyNone)}
                        => r.fetched = r.written

C9_Witness ==
    /\ Len(bool_rows) = MaxRows
    /\ \E i, j \in 1..Len(bool_rows) :
          /\ bool_rows[i].written = Some(PyNone)
          /\ bool_rows[i].fetched = Some(PyNone)
          /\ bool_rows[j].written = Some(PyTrue)
          /\ bool_rows[j].bound = Some(PyInt(1))
          /\ bool_rows[j].fetched = Some(PyTrue)

\* the table get_columns was asked for is the table of the catalog
ReflectedTable ==
    /\ reflected # Unset
    /\ reflected[1].table_name = Str(<<"t">>)

\* the triggers that depend on the field of the table and on one generator
\* and on nothing else, and fire before an insert
LinkingTriggers(field) ==
    { trig \in catalog.triggers :
        LET ds == { d \in catalog.deps : d.dependent_name = trig.trigger_name }
        IN  /\ trig.trigger_type = TRIG_BEFORE_INSERT
            /\ Cardinality(ds) = 2
            /\ \E d \in ds : /\ d.depended_on_type = DEP_TABLE
                              /\ d.depended_on_name = TableName
                              /\ d.field_name = Some(field)
            /\ \E d \in ds : d.depended_on_type = DEP_GENERATOR }

\* the generators the heuristic finds for the field
LinkedGenerators(field) ==
    { rstrip(d.depended_on_name) :
        d \in { e \in catalog.deps :
                  /\ e.depended_on_type = DEP_GENERATOR
                  /\ \E trig \in LinkingTriggers(field) :
                        e.dependent_name = trig.trigger_name } }

DefaultsWellFormed ==
    \A i \in 1..Len(catalog.fields) : column_default(catalog.fields[i]).ok

\* C7 (as claimed): a column record carries a sequence entry only when the
\* primary key is that one column and the heuristic finds exactly one
\* generator; with no generator or more than one found, no record carries a
\* sequence entry, and the heuristic raises no error.
C7_SequenceOnlyWhenUnique ==
    ReflectedTable =>
        LET res == reflected[1].result
        IN  /\ DefaultsWellFormed => res.k = "return"
            /\ res.k = "return" =>
                  \A i \in 1..Len(res.cols) :
                      "sequence" \in DOMAIN res.cols[i] =>
                          /\ Len(catalog.pk) = 1
                          /\ rstrip(catalog.pk[1]) = rstrip(catalog.fields[i].fname)
                          /\ Cardinality(LinkedGenerators(rstrip(catalog.pk[1]))) = 1

\* a default source starts with "DEFAULT " in any letter case
HasDefaultPrefix(s) ==
    /\ Len(s) >= 8
    /\ s[1] \in {"D", "d"} /\ s[2] \in {"E", "e"} /\ s[3] \in {"F", "f"}
    /\ s[4] \in {"A", "a"} /\ s[5] \in {"U", "u"} /\ s[6] \in {"L", "l"}
    /\ s[7] \in {"T", "t"} /\ s[8] = " "

\* C10: a present default source with the prefix "DEFAULT " (any letter case)
\* gives as default the source without its first 8 characters, an absent one
\* gives None, and a present one without the prefix makes get_columns fail
\* with an AssertionError and return no column list.
C10_DefaultPrefix ==
    ReflectedTable =>
        LET res == reflected[1].result
            rows == catalog.fields
            malformed(i) ==
                rows[i].fdefault # Unset /\ ~ HasDefaultPrefix(rows[i].fdefault[1])
        IN  IF \E i \in 1..Len(rows) : malformed(i)
            THEN /\ res.k = "raise"
                 /\ res.exc = "AssertionError"
                 /\ "cols" \notin DOMAIN res
            ELSE /\ res.k = "return"
                 /\ Len(res.cols) = Len(rows)
                 /\ \A i \in 1..Len(rows) :
                       res.cols[i].default =
                           IF rows[i].fdefault = Unset THEN Unset
                           ELSE LET s == rows[i].fdefault[1]
                                IN  Some([j \in 1..(Len(s) - 8) |-> s[j + 8]])

C10_Witness ==
    /\ ReflectedTable
    /\ reflected[1].result.k = "return"
    /\ Len(reflected[1].result.cols) = 2
    /\ catalog.fields[1].fdefault = Some(<<"d", "e", "f", "a", "u", "l", "t", " ", "1">>)
    /\ reflected[1].result.cols[1].default = Some(<<"1">>)
    /\ catalog.fields[2].fdefault = Unset
    /\ reflected[1].result.cols[2].default = Unset

\* the native type name of row i is not in the type mapping table of the dialect
Unrecognized(self, rows, i) ==
    Text(rstrip(rows[i].ftype)) \notin DOMAIN self_ischema_names(self)

\* the rows with row i given a type name the mapping table knows
AsKnownType(rows, i) == [rows EXCEPT ![i].ftype = <<"LONG">>]

\* C11: when no default source is malformed, a catalog row whose type name is
\* not in the type mapping table gives one warning naming the type and the
\* column and a record of the NullType placeholder, and get_columns returns
\* one record per catalog row in catalog order, the records of the other
\* columns being those of the same table with the unrecognized column of a
\* known type.
C11_UnrecognizedTypeContinues ==
    (ReflectedTable /\ DefaultsWellFormed) =>
        LET res == reflected[1].result
            rows == catalog.fields
            self == dialects[reflected[1].dialect]
            unknown == { i \in 1..Len(rows) : Unrecognized(self, rows, i) }
        IN  unknown # {} =>
              /\ res.k = "return"
              /\ Len(res.cols) = Len(rows)
              /\ \A i \in 1..Len(rows) :
                    res.cols[i].name = normalize_name(Str(rows[i].fname))
              /\ Len(res.warnings) = Cardinality(unknown)
              /\ \A i \in unknown :
                    /\ res.cols[i].type = NULLTYPE
                    /\ \E w \in 1..Len(res.warnings) :
                          res.warnings[w] =
                              [colspec |-> Text(rstrip(rows[i].ftype)),
                               name |-> res.cols[i].name]
                    /\ \A order \in TriggerOrders :
                          LET known == get_columns_loop(
                                           self, AsKnownType(rows, i),
                                           get_primary_keys(reflected[1].table_name),
                                           denormalize_name(reflected[1].table_name),
                                           order, 1, <<>>, <<>>)
                          IN  /\ known.k = "return"
                              /\ \A j \in 1..Len(rows) :
                                    j # i => res.cols[j] = known.cols[j]

C11_Witness ==
    /\ ReflectedTable
    /\ DefaultsWellFormed
    /\ Len(catalog.fields) = 2
    /\ Unrecognized(dialects[reflected[1].dialect], catalog.fields, 1)
    /\ ~ Unrecognized(dialects[reflected[1].dialect], catalog.fields, 2)
    /\ catalog.fields[1].fdefault # Unset
    /\ reflected[1].result.k = "return"
    /\ Len(reflected[1].result.cols) = 2
    /\ reflected[1].result.cols[1].type = NULLTYPE
    /\ reflected[1].result.cols[2].type # NULLTYPE
    /\ Len(reflected[1].result.warnings) = 1

\* an identifier the quoting policy leaves unquoted
NeedsNoQuoting(n) ==
    /\ n.k = "str"
    /\ n.s # <<>>
    /\ _requires_quotes(n.s) = "no"

\* C12: for every identifier n that does not require quoting, in lower, upper
\* or mixed case, normalize_name(denormalize_name(n)) is normalize_name(n).
C12_DenormalizeThenNormalize ==
    (NeedsNoQuoting(nm_arg) /\ nm_trace = <<"denormalize", "normalize">>) =>
        nm_cur = normalize_name(nm_arg)

C12_Witness ==
    /\ NeedsNoQuoting(nm_arg)
    /\ \E i \in 1..Len(nm_arg.s) : nm_arg.s[i] \in Upper
    /\ \E i \in 1..Len(nm_arg.s) : nm_arg.s[i] \in Lower
    /\ nm_trace = <<"denormalize", "normalize">>
    /\ nm_cur = nm_arg

\* the instance has been initialized, is in current mode and never was put in
\* legacy mode
CurrentOnly(d) ==
    /\ dialects[d].server_version_info # Unset
    /\ dialects[d]._version_two
    /\ dialects[d].ischema_names = Unset
    /\ dialects[d].colspecs = Unset

\* C13: after any sequence of initialize and get_columns calls on any of the
\* dialect instances the module-level ischema_names and colspecs are the
\* tables built at load, so an instance initialized in current mode only
\* maps TIMESTAMP to the timestamp type and uses the load-time colspecs,
\* whatever the other instances were initialized against.
C13_ModuleTablesUnchanged ==
    /\ ischema_names = ischema_names_at_load
    /\ colspecs = colspecs_at_load
    /\ \A d \in Dialects :
          CurrentOnly(d) =>
              /\ self_ischema_names(dialects[d])["TIMESTAMP"] = "TIMESTAMP"
              /\ self_ischema_names(dialects[d]) = ischema_names_at_load
              /\ self_colspecs(dialects[d]) = colspecs_at_load
    /\ \A d \in Dialects :
          (reflected # Unset /\ reflected[1].dialect = d /\ CurrentOnly(d)
             /\ reflected[1].table_name = Str(<<"t">>)) =>
              /\ reflected[1].result.k = "return"
              /\ reflected[1].result.cols[2].type.cls = "TIMESTAMP"

C13_Witness ==
    \E d, e \in Dialects :
        /\ d # e
        /\ CurrentOnly(d)
        /\ dialects[e].server_version_info # Unset
        /\ ~ dialects[e]._version_two
        /\ self_ischema_names(dialects[e])["TIMESTAMP"] = "DATE"
        /\ self_ischema_names(dialects[d])["TIMESTAMP"] = "TIMESTAMP"
        /\ ischema_names = ischema_names_at_load
        /\ reflected # Unset
        /\ reflected[1].dialect = d
        /\ reflected[1].table_name = Str(<<"t">>)
        /\ reflected[1].result.cols[2].type.cls = "TIMESTAMP"

\* C14 (as claimed): after any sequence of initialize calls on one instance
\* the instance maps TIMESTAMP to the date-only type, and uses the legacy
\* colspecs, if and only if its legacy flag is set (_version_two is false).
C14_TablesAgreeWithFlag ==
    \A d \in Dialects :
        /\ (self_ischema_names(dialects[d])["TIMESTAMP"] = "DATE")
              <=> ~ dialects[d]._version_two
        /\ (self_colspecs(dialects[d]) = legacy_colspecs)
              <=> ~ dialects[d]._version_two

====
